---- MODULE Spec2Model ----
(***************************************************************************)
(* rad::UniquePtr<T, Deleter> (radiant/UniquePtr.h, allocator-aware        *)
(* revision): a pool of UniquePtr objects ("cells"), the raw addresses     *)
(* they hold, the deleter each one carries as its base subobject, the      *)
(* storage and the objects at those addresses, and a record of every       *)
(* deleter invocation and of every call of a storage primitive.            *)
(*                                                                         *)
(* AllocTraits and StdAllocator (radiant/Memory.h) are used by             *)
(* DefaultDelete and make_unique; they are modelled from their use and     *)
(* from the specification of the four primitives Alloc, Construct,         *)
(* Destroy and Free.                                                       *)
(*                                                                         *)
(* In Spec every member function is one atomic action, its body an         *)
(* operator over a record S of the state (see cur below), composed in the  *)
(* order of the code where one calls another.  In SpecFields the moves run *)
(* one field read or write at a time, the other operations between them.   *)
(*                                                                         *)
(* Caller contract (spec 4.1): an address handed to a constructor or to    *)
(* reset(p) is null or fresh, i.e. held by no live cell and not destroyed. *)
(*                                                                         *)
(* Cells and addresses are interchangeable names, so cells are constructed *)
(* in index order and a new address is the least one never bound before.   *)
(* A run instantiates the template with one deleter family: every binary   *)
(* operation needs both cells to carry the same family, so cells of        *)
(* different families never act on each other.                             *)
(***************************************************************************)
EXTENDS Integers, Sequences, FiniteSets, TLC

\* ---------------------------------------------------------------- bounds
NCells == 2
MaxAddr == 2

\* A saturating counter of deleter invocations per address: 2 means "twice
\* or more", which is all a double free needs.
MaxCount == 2

Cells == 1..NCells
NULL == 0
Addr == 1..MaxAddr
Ptr == {NULL} \cup Addr
NoCell == NULL

\* The element types of the test hierarchy (struct Derived : Base).
Types == {"Base", "Derived"}
\* The deleter families: the stateful functor D2 of the tests (one int of
\* state) and rad::DefaultDelete<T> (its StdAllocator base as its state).
Kinds == {"D2", "DefaultDelete"}

\* U* converts to T* (rad::IsConv<U*, T*>), for U # T.
IsConv(u, t) == u = "Derived" /\ t = "Base"

\* What a default-constructed deleter holds: D2(int s = 0), and the
\* default-constructed StdAllocator of DefaultDelete().
DefaultDelState == 0
\* A non-default deleter state: D2(42) of the tests.
OtherDelState == 42
\* The values of D2::state the model draws from.
D2States == {DefaultDelState, OtherDelState}
\* The values of the StdAllocator base of DefaultDelete.  StdAllocator is an
\* empty class: the tests assert sizeof(UniquePtr<Foo>) == sizeof(Foo*) for
\* the default deleter, so every StdAllocator is the same value.
StdAllocatorStates == {DefaultDelState}
DelStatesOf(k) == IF k = "D2" THEN D2States ELSE StdAllocatorStates
DelStates == D2States \cup StdAllocatorStates

\* The constructor arguments make_unique is called with in the tests
\* (make_unique<int>(7), make_unique<Foo>(55)).
Args == {7, 55}
\* The value of an object the model does not follow: there is no object, or
\* the caller built it before handing the address over.
NoValue == NULL
\* The subobjects of an object whose most-derived type is t.
Parts(t) == IF t = "Derived" THEN {"Base", "Derived"} ELSE {"Base"}
\* struct Base { virtual ~Base() = default; }, inherited by Derived.
HasVirtualDtor(t) == t \in {"Base", "Derived"}
\* An allocator object is named after the storage it handed out: the local
\* `A alloc` of the make_unique call that returned address a is a, and an
\* allocator that handed out nothing (a default-constructed one that is not
\* a copy of another) is NoAlloc.  StdAllocator has no data member, so this
\* name is the only thing that tells two allocator objects apart.
NoAlloc == NULL
AllocIds == {NoAlloc} \cup Addr
\* No storage and no object at an address.
NoObject == [units |-> 0, parts |-> {}, val |-> NoValue, made |-> FALSE]

VARIABLES
    alive,      \* cell -> "none" (not constructed) | "live" | "dead"
    T,          \* cell -> element type of the cell
    kind,       \* the deleter family the run instantiates UniquePtr with
    m_ptr,      \* cell -> held address (UniquePtr::m_ptr)
    deleter,    \* cell -> state of the Deleter base subobject
    allocator,  \* cell -> the allocator object its DefaultDelete is a copy of
    heap,       \* address -> units of storage, live subobjects, value, and
                \*   whether make_unique produced it and only cells held it since
    destroyed,  \* address -> number of deleter invocations on it (saturating)
    bound,      \* address -> it was bound to some cell at some time
    handedBack, \* address -> release() returned it last and it was not rebound
    last        \* the operation that produced this state

vars == <<alive, T, kind, m_ptr, deleter, allocator, heap, destroyed, bound,
         handedBack, last>>

\* ------------------------------------------------------ the heap of cells
cur == [m_ptr |-> m_ptr, deleter |-> deleter, allocator |-> allocator,
        heap |-> heap, destroyed |-> destroyed, inv |-> <<>>, ev |-> <<>>]

Live(c) == alive[c] = "live"
Holders(S, p) == {c \in Cells : Live(c) /\ S.m_ptr[c] = p}

\* The caller contract on an address given to a constructor or to reset(p).
Used(a) == bound[a] \/ heap[a].units # 0

\* The next address the program sees for the first time.
FreshAlloc(p) ==
    IF p = NULL THEN TRUE
    ELSE ~Used(p) /\ \A q \in 1..(p - 1) : Used(q)

Fresh(p) ==
    IF p = NULL THEN TRUE
    ELSE /\ Holders(cur, p) = {} /\ destroyed[p] = 0
         /\ \/ handedBack[p]
            \/ FreshAlloc(p)

\* The next object of the program: cells are constructed in index order.
NextCell(c) == alive[c] = "none" /\ \A b \in 1..(c - 1) : alive[b] # "none"

Inc(n) == IF n < MaxCount THEN n + 1 ELSE MaxCount

\* ------------------------------------------- storage and its primitives
\* One call of a storage primitive, as the step's event log records it.
Ev(name, p, n, al, v, ps) ==
    [ev |-> name, addr |-> p, n |-> n, alloc |-> al, arg |-> v, parts |-> ps]
Emit(S, e) == [S EXCEPT !.ev = Append(@, e)]

LiveCount(h) == Cardinality({a \in Addr : h[a].parts # {}})
Outstanding(h) == Cardinality({a \in Addr : h[a].units # 0})

\* The caller's `new T{...}` that produces the address handed to a
\* constructor or to reset(p); an address that came back from release()
\* still carries its object.
CallerNew(S, p, t) ==
    IF p = NULL THEN S
    ELSE IF S.heap[p].units # 0 THEN S
    ELSE [S EXCEPT !.heap[p] = [units |-> 1, parts |-> Parts(t),
                                val |-> NoValue, made |-> FALSE]]

\* Mutant: the destructor call is not dispatched, only the subobjects of the
\* static type t are destroyed.
DestroyedParts_Static(S, p, t) == S.heap[p].parts \cap Parts(t)

\* The subobjects that p->~t() or `delete p` destroys, p of static type t*:
\* the destructor is virtual, so the call reaches the most-derived object.
DestroyedParts(S, p, t) ==
    IF HasVirtualDtor(t) THEN S.heap[p].parts ELSE S.heap[p].parts \cap Parts(t)

\* AllocTraits<A>::Alloc<T>(alloc, 1): `raw` is what the allocator answers,
\* one unit of storage at a new address or no storage (null).
Traits_Alloc(S, al, raw) ==
    LET S1 == Emit(S, Ev("Alloc", raw, 1, al, NoValue, {}))
    IN  IF raw = NULL THEN S1
        ELSE [S1 EXCEPT !.heap[raw] = [units |-> 1, parts |-> {},
                                       val |-> NoValue, made |-> TRUE]]

\* AllocTraits<A>::Construct(alloc, p, args...): builds a t from v at p, or
\* T's constructor raises (ok = FALSE) and nothing is built.  On a null p the
\* behaviour is undefined: the call returns having built nothing, or faults.
Traits_Construct(S, al, p, t, v, ok) ==
    LET built == ok /\ p # NULL
        S1 == Emit(S, Ev("Construct", p, 1, al, v, IF built THEN Parts(t) ELSE {}))
    IN  IF built THEN [S1 EXCEPT !.heap[p].parts = Parts(t), !.heap[p].val = v]
        ELSE S1

\* AllocTraits<A>::Destroy(alloc, p): p->~t() in place, storage kept.
Traits_Destroy(S, al, p, t) ==
    LET ps   == DestroyedParts(S, p, t)
        rest == S.heap[p].parts \ ps
        S1   == Emit(S, Ev("Destroy", p, 1, al, NoValue, ps))
    IN  [S1 EXCEPT !.heap[p].parts = rest,
                   !.heap[p].val = IF rest = {} THEN NoValue ELSE @]

\* AllocTraits<A>::Free(alloc, p, n): gives the n units at p back.
Traits_Free(S, al, p, n) ==
    LET S1 == Emit(S, Ev("Free", p, n, al, NoValue, {}))
    IN  [S1 EXCEPT !.heap[p] = NoObject]

\* Mutant: DefaultDelete frees the storage before destroying the object.
DefaultDelete_call_FreeFirst(S, al, t, p) ==
    IF p = NULL THEN S
    ELSE Traits_Destroy(Traits_Free(S, al, p, 1), al, p, t)

\* DefaultDelete<t>::operator()(p), al the allocator it holds by value:
\* if (!p) return; alloc = get_allocator(); Destroy(alloc, p); Free(alloc, p, 1).
DefaultDelete_call(S, al, t, p) ==
    IF p = NULL THEN S
    ELSE Traits_Free(Traits_Destroy(S, al, p, t), al, p, 1)

\* D2::operator()(U* p): ++count; delete p.  Deleting null does nothing.
D2_call(S, t, p) ==
    IF p = NULL THEN S
    ELSE LET S1 == Emit(S, Ev("delete", p, 1, NoAlloc, NoValue,
                              DestroyedParts(S, p, t)))
         IN  [S1 EXCEPT !.heap[p] = NoObject]

\* The call operator of the deleter that cell c carries.
Invoke(S, c, p) ==
    IF kind = "DefaultDelete"
    THEN DefaultDelete_call(S, S.allocator[c], T[c], p)
    ELSE D2_call(S, T[c], p)

\* static_cast<Deleter&>(*this)(p) in a member function of cell c (`site`).
\* `held` is what c.get() answers while the deleter runs.
DeleterCall(S, c, p, site) ==
    LET S1 == [S EXCEPT !.inv = Append(@, [addr |-> p, del |-> S.deleter[c],
                                           alloc |-> S.allocator[c],
                                           held |-> S.m_ptr[c],
                                           site |-> site])]
        S2 == Invoke(S1, c, p)
    IN  IF p = NULL THEN S2 ELSE [S2 EXCEPT !.destroyed[p] = Inc(@)]

\* The move constructor of a deleter of the same type (implicitly defined):
\* D2 copies its int, DefaultDelete copies its allocator base.
MoveDeleter(k, d) == d

\* The allocator base of a DefaultDelete built by that move constructor, or
\* by DefaultDelete(const allocator_type& a): a copy of the source.
MoveAllocator(al) == al

\* The allocator base of a DefaultDelete<T> built from a DefaultDelete<U>:
\* the converting constructor has an empty initializer list and body, so the
\* base is default-constructed and the source is not read.
ConvertAllocator(al) == NoAlloc

\* Mutant: the converted deleter is default-constructed whatever the source.
ConvertDeleter_Default(k, d) == DefaultDelState

\* Deleter(rad::Move(o.get_deleter())) across types.  D2 is one type for every
\* pointee, so this is its move constructor; DefaultDelete<T> is built by
\* DefaultDelete(const DefaultDelete<U>&) noexcept {}, whose allocator base is
\* default-constructed.
ConvertDeleter(k, d) == IF k = "DefaultDelete" THEN DefaultDelState ELSE d

\* Mutant: release() returns the address and forgets to clear the field.
release_NoClear(S, c) ==
    [S |-> S, ret |-> S.m_ptr[c]]

\* pointer release(): tmp = m_ptr; m_ptr = nullptr; return tmp.
release(S, c) ==
    [S |-> [S EXCEPT !.m_ptr[c] = NULL], ret |-> S.m_ptr[c]]

\* Mutant: reset() calls the deleter without testing m_ptr.
reset_Unguarded(S, c, p) ==
    LET S1 == DeleterCall(S, c, S.m_ptr[c], "reset")
    IN  [S1 EXCEPT !.m_ptr[c] = p]

\* Mutant: reset() overwrites the field and never calls the deleter.
reset_NoDelete(S, c, p) ==
    [S EXCEPT !.m_ptr[c] = p]

\* Mutant: get() hands the address out and clears the field.
get_Clears(S, c) ==
    [S |-> [S EXCEPT !.m_ptr[c] = NULL], ret |-> S.m_ptr[c]]

\* constexpr pointer get() const noexcept { return m_ptr; }
get(S, c) == [S |-> S, ret |-> S.m_ptr[c]]

\* constexpr operator bool() const noexcept { return m_ptr != nullptr; }
operator_bool(S, c) == [S |-> S, ret |-> S.m_ptr[c] # NULL]

\* constexpr pointer operator->() const noexcept { return m_ptr; }
operator_arrow(S, c) == [S |-> S, ret |-> S.m_ptr[c]]

\* Mutant: reset(p) runs the deleter and then clears the field, ignoring p.
reset_DropsArg(S, c, p) ==
    LET S1 == IF S.m_ptr[c] # NULL THEN DeleterCall(S, c, S.m_ptr[c], "reset")
              ELSE S
    IN  [S1 EXCEPT !.m_ptr[c] = NULL]

\* Mutant: reset() stores the new address first and then calls the deleter
\* on a saved copy of the old one.
reset_ClearFirst(S, c, p) ==
    LET old == S.m_ptr[c]
        S1  == [S EXCEPT !.m_ptr[c] = p]
    IN  IF old # NULL THEN DeleterCall(S1, c, old, "reset") ELSE S1

\* void reset(pointer p): if (m_ptr) deleter(m_ptr); m_ptr = p.
reset(S, c, p) ==
    LET S1 == IF S.m_ptr[c] # NULL THEN DeleterCall(S, c, S.m_ptr[c], "reset") ELSE S
    IN  [S1 EXCEPT !.m_ptr[c] = p]

\* Mutant: operator=(UniquePtr&&) without the this != &o test.
moveAssign_NoSelfCheck(S, c, o) ==
    LET S1 == reset(S, c, NULL)
        S2 == [S1 EXCEPT !.m_ptr[c] = S1.m_ptr[o]]
        S3 == [S2 EXCEPT !.deleter[c] = MoveDeleter(kind, S2.deleter[o]),
                         !.allocator[c] = MoveAllocator(S2.allocator[o])]
    IN  [S3 EXCEPT !.m_ptr[o] = NULL]

\* Mutant: operator=(UniquePtr&&) without o.m_ptr = nullptr.
moveAssign_NoClear(S, c, o) ==
    IF c # o
    THEN LET S1 == reset(S, c, NULL)
             S2 == [S1 EXCEPT !.m_ptr[c] = S1.m_ptr[o]]
         IN  [S2 EXCEPT !.deleter[c] = MoveDeleter(kind, S2.deleter[o]),
                        !.allocator[c] = MoveAllocator(S2.allocator[o])]
    ELSE S

\* Mutant: operator=(UniquePtr&&) without get_deleter() = Move(o.get_deleter()).
moveAssign_NoDeleter(S, c, o) ==
    IF c # o
    THEN LET S1 == reset(S, c, NULL)
             S2 == [S1 EXCEPT !.m_ptr[c] = S1.m_ptr[o]]
         IN  [S2 EXCEPT !.m_ptr[o] = NULL]
    ELSE S

\* Mutant: operator=(UniquePtr&&) without the reset() of the destination.
moveAssign_NoReset(S, c, o) ==
    IF c # o
    THEN LET S2 == [S EXCEPT !.m_ptr[c] = S.m_ptr[o]]
             S3 == [S2 EXCEPT !.deleter[c] = MoveDeleter(kind, S2.deleter[o]),
                              !.allocator[c] = MoveAllocator(S2.allocator[o])]
         IN  [S3 EXCEPT !.m_ptr[o] = NULL]
    ELSE S

\* Mutant: operator=(UniquePtr&&) assigns the deleter before the reset().
moveAssign_DeleterFirst(S, c, o) ==
    IF c # o
    THEN LET S0 == [S EXCEPT !.deleter[c] = MoveDeleter(kind, S.deleter[o]),
                             !.allocator[c] = MoveAllocator(S.allocator[o])]
             S1 == reset(S0, c, NULL)
             S2 == [S1 EXCEPT !.m_ptr[c] = S1.m_ptr[o]]
         IN  [S2 EXCEPT !.m_ptr[o] = NULL]
    ELSE S

\* operator=(UniquePtr&& o).
moveAssign(S, c, o) ==
    IF c # o
    THEN LET S1 == reset(S, c, NULL)
             S2 == [S1 EXCEPT !.m_ptr[c] = S1.m_ptr[o]]
             S3 == [S2 EXCEPT !.deleter[c] = MoveDeleter(kind, S2.deleter[o]),
                              !.allocator[c] = MoveAllocator(S2.allocator[o])]
         IN  [S3 EXCEPT !.m_ptr[o] = NULL]
    ELSE S

\* Mutant: operator=(UniquePtr<U,E>&&) assigns the deleter before the reset().
convertingAssign_DeleterFirst(S, c, o) ==
    LET r  == release(S, o)
        S0 == [r.S EXCEPT !.deleter[c] = ConvertDeleter(kind, r.S.deleter[o]),
                          !.allocator[c] = ConvertAllocator(r.S.allocator[o])]
    IN  reset(S0, c, r.ret)

\* operator=(UniquePtr<U,E>&& o): reset(o.release()); get_deleter() = Move(o.get_deleter()).
convertingAssign(S, c, o) ==
    LET r  == release(S, o)
        S1 == reset(r.S, c, r.ret)
    IN  [S1 EXCEPT !.deleter[c] = ConvertDeleter(kind, S1.deleter[o]),
                   !.allocator[c] = ConvertAllocator(S1.allocator[o])]

\* Mutant: swap() exchanges the addresses and leaves the deleters in place.
swap_PtrOnly(S, c, o) ==
    [S EXCEPT !.m_ptr[c] = S.m_ptr[o], !.m_ptr[o] = S.m_ptr[c]]

\* Mutant: swap() copies o's members into the cell instead of exchanging.
swap_Copy(S, c, o) ==
    [S EXCEPT !.m_ptr[c] = S.m_ptr[o], !.deleter[c] = S.deleter[o],
              !.allocator[c] = S.allocator[o]]

\* swap(UniquePtr& o): Swap(m_ptr, o.m_ptr); Swap(get_deleter(), o.get_deleter()).
\* rad::Swap exchanges the two objects through a temporary, so Swap(x, x)
\* leaves x as it was.
swap(S, c, o) ==
    LET S1 == [S EXCEPT !.m_ptr[c] = S.m_ptr[o], !.m_ptr[o] = S.m_ptr[c]]
    IN  [S1 EXCEPT !.deleter[c] = S1.deleter[o], !.deleter[o] = S1.deleter[c],
                   !.allocator[c] = S1.allocator[o],
                   !.allocator[o] = S1.allocator[c]]

\* ~UniquePtr(): if (m_ptr) deleter(m_ptr).  The field is not cleared.
destructor(S, c) ==
    IF S.m_ptr[c] # NULL THEN DeleterCall(S, c, S.m_ptr[c], "dtor") ELSE S

\* ------------------------------------------------------------ bookkeeping
Op(name, c, o, p, ret, S) ==
    [op |-> name, c |-> c, o |-> o, p |-> p, ret |-> ret, inv |-> S.inv,
     ev |-> S.ev, res |-> "returned", arg |-> NoValue, truth |-> FALSE,
     line |-> 0]

\* Installs the result S of a member function and keeps the history maps:
\* `binds` is the address a cell took from the caller or from make_unique,
\* `back` the one release() returned, which leaves the cells' hands.
Commit(S, binds, back) ==
    /\ m_ptr' = S.m_ptr
    /\ deleter' = S.deleter
    /\ allocator' = S.allocator
    /\ heap' = [a \in Addr |-> IF a = back THEN [S.heap[a] EXCEPT !.made = FALSE]
                               ELSE S.heap[a]]
    /\ destroyed' = S.destroyed
    /\ bound' = [a \in Addr |-> bound[a] \/ a = binds]
    /\ handedBack' = [a \in Addr |->
                        IF a = back THEN TRUE
                        ELSE IF a = binds THEN FALSE
                        ELSE handedBack[a]]

Init ==
    /\ alive = [c \in Cells |-> "none"]
    /\ T = [c \in Cells |-> "Base"]
    /\ kind \in Kinds
    /\ m_ptr = [c \in Cells |-> NULL]
    /\ deleter = [c \in Cells |-> DefaultDelState]
    /\ allocator = [c \in Cells |-> NoAlloc]
    /\ heap = [a \in Addr |-> NoObject]
    /\ destroyed = [a \in Addr |-> 0]
    /\ bound = [a \in Addr |-> FALSE]
    /\ handedBack = [a \in Addr |-> FALSE]
    /\ last = Op("init", NoCell, NoCell, NULL, NULL, cur)

\* --------------------------------------------------------------- actions
\* constexpr UniquePtr() noexcept = default.
ConstructDefault(c, t) ==
    /\ NextCell(c)
    /\ alive' = [alive EXCEPT ![c] = "live"]
    /\ T' = [T EXCEPT ![c] = t]
    /\ UNCHANGED kind
    /\ LET S == [cur EXCEPT !.m_ptr[c] = NULL, !.deleter[c] = DefaultDelState,
                            !.allocator[c] = NoAlloc]
       IN  /\ Commit(S, NULL, NULL)
           /\ last' = Op("ctor0", c, NoCell, NULL, NULL, S)

\* explicit UniquePtr(pointer p, Deleter d = Deleter()), called with a new t
\* or null and with a deleter that is not a copy of another cell's.
Construct(c, t, p, d) ==
    /\ NextCell(c)
    /\ Fresh(p)
    /\ d \in DelStatesOf(kind)
    /\ alive' = [alive EXCEPT ![c] = "live"]
    /\ T' = [T EXCEPT ![c] = t]
    /\ UNCHANGED kind
    /\ LET S0 == CallerNew(cur, p, t)
           S  == [S0 EXCEPT !.m_ptr[c] = p, !.deleter[c] = MoveDeleter(kind, d),
                                            !.allocator[c] = MoveAllocator(NoAlloc)]
       IN  /\ Commit(S, p, NULL)
           /\ last' = Op("ctor", c, NoCell, p, NULL, S)

\* UniquePtr(UniquePtr&& o): Deleter(Move(o.get_deleter())), m_ptr(o.release()).
MoveConstruct(c, o) ==
    /\ NextCell(c)
    /\ Live(o)
    /\ alive' = [alive EXCEPT ![c] = "live"]
    /\ T' = [T EXCEPT ![c] = T[o]]
    /\ UNCHANGED kind
    /\ LET S1 == [cur EXCEPT !.deleter[c] = MoveDeleter(kind, cur.deleter[o]),
                             !.allocator[c] = MoveAllocator(cur.allocator[o])]
           r  == release(S1, o)
           S  == [r.S EXCEPT !.m_ptr[c] = r.ret]
       IN  /\ Commit(S, NULL, NULL)
           /\ last' = Op("moveCtor", c, o, NULL, NULL, S)

\* UniquePtr(UniquePtr<U,E>&& o), enabled when U* converts to T*.
ConvertingMoveConstruct(c, o) ==
    /\ NextCell(c)
    /\ Live(o)
    /\ IsConv(T[o], "Base")
    /\ alive' = [alive EXCEPT ![c] = "live"]
    /\ T' = [T EXCEPT ![c] = "Base"]
    /\ UNCHANGED kind
    /\ LET S1 == [cur EXCEPT !.deleter[c] = ConvertDeleter(kind, cur.deleter[o]),
                             !.allocator[c] = ConvertAllocator(cur.allocator[o])]
           r  == release(S1, o)
           S  == [r.S EXCEPT !.m_ptr[c] = r.ret]
       IN  /\ Commit(S, NULL, NULL)
           /\ last' = Op("convCtor", c, o, NULL, NULL, S)

\* ~UniquePtr().  The lifetime of the cell ends: its members are no longer
\* objects, so a dead cell carries the same placeholder values as a cell not
\* yet constructed.
Destroy(c) ==
    /\ Live(c)
    /\ alive' = [alive EXCEPT ![c] = "dead"]
    /\ T' = [T EXCEPT ![c] = "Base"]
    /\ UNCHANGED kind
    /\ LET D == destructor(cur, c)
           S == [D EXCEPT !.m_ptr[c] = NULL, !.deleter[c] = DefaultDelState,
                          !.allocator[c] = NoAlloc]
       IN  /\ Commit(S, NULL, NULL)
           /\ last' = Op("dtor", c, NoCell, NULL, NULL, S)

\* Mutant: operator=(std::nullptr_t) clears the field without reset().
AssignNull_ClearOnly(c) ==
    /\ Live(c)
    /\ UNCHANGED <<alive, T, kind>>
    /\ LET S == [cur EXCEPT !.m_ptr[c] = NULL]
       IN  /\ Commit(S, NULL, NULL)
           /\ last' = Op("assignNull", c, NoCell, NULL, NULL, S)

\* operator=(std::nullptr_t): reset().
AssignNull(c) ==
    /\ Live(c)
    /\ UNCHANGED <<alive, T, kind>>
    /\ LET S == reset(cur, c, NULL)
       IN  /\ Commit(S, NULL, NULL)
           /\ last' = Op("assignNull", c, NoCell, NULL, NULL, S)

\* operator=(UniquePtr&& o), o of the same type; o may be the cell itself.
MoveAssign(c, o) ==
    /\ Live(c) /\ Live(o)
    /\ T[c] = T[o]
    /\ UNCHANGED <<alive, T, kind>>
    /\ LET S == moveAssign(cur, c, o)
       IN  /\ Commit(S, NULL, NULL)
           /\ last' = Op("moveAssign", c, o, NULL, NULL, S)

\* operator=(UniquePtr<U,E>&& o), enabled when U* converts to T*.
ConvertingMoveAssign(c, o) ==
    /\ Live(c) /\ Live(o)
    /\ IsConv(T[o], T[c])
    /\ UNCHANGED <<alive, T, kind>>
    /\ LET S == convertingAssign(cur, c, o)
       IN  /\ Commit(S, NULL, NULL)
           /\ last' = Op("convAssign", c, o, NULL, NULL, S)

\* p.release(): the caller receives the address.
Release(c) ==
    /\ Live(c)
    /\ UNCHANGED <<alive, T, kind>>
    /\ LET r == release(cur, c)
       IN  /\ Commit(r.S, NULL, r.ret)
           /\ last' = Op("release", c, NoCell, NULL, r.ret, r.S)

\* p.reset(q), q null or a new object of the cell's type.
Reset(c, p) ==
    /\ Live(c)
    /\ Fresh(p)
    /\ UNCHANGED <<alive, T, kind>>
    /\ LET S == reset(CallerNew(cur, p, T[c]), c, p)
       IN  /\ Commit(S, p, NULL)
           /\ last' = Op("reset", c, NoCell, p, NULL, S)

\* x.swap(y), y of the same type; y may be x.
SwapMember(c, o) ==
    /\ Live(c) /\ Live(o)
    /\ T[c] = T[o]
    /\ UNCHANGED <<alive, T, kind>>
    /\ LET S == swap(cur, c, o)
       IN  /\ Commit(S, NULL, NULL)
           /\ last' = Op("swap", c, o, NULL, NULL, S)

\* rad::swap(a, b): a.swap(b).
SwapFree(a, b) ==
    /\ Live(a) /\ Live(b)
    /\ T[a] = T[b]
    /\ UNCHANGED <<alive, T, kind>>
    /\ LET S == swap(cur, a, b)
       IN  /\ Commit(S, NULL, NULL)
           /\ last' = Op("swapFree", a, b, NULL, NULL, S)

\* Mutant: make_unique wraps the raw storage without constructing in it.
make_unique_NoConstruct(S, c, t, raw, v, ok) ==
    LET al == raw
        S1 == Traits_Alloc(S, al, raw)
    IN  IF ok
        THEN [S |-> [S1 EXCEPT !.m_ptr[c] = raw,
                               !.deleter[c] = MoveDeleter(kind, DefaultDelState),
                               !.allocator[c] = MoveAllocator(al)],
              res |-> "returned"]
        ELSE [S |-> S1, res |-> "raised"]

\* make_unique<t>(v): A alloc; raw = Alloc<t>(alloc, 1); Construct(alloc, raw,
\* v); return UniquePtr<t>(raw, D(alloc)).  The result of Alloc is not tested
\* and no handler surrounds Construct: when Construct raises, the function
\* is left at once and what it did so far stays.
make_unique(S, c, t, raw, v, ok) ==
    LET al == raw
        S1 == Traits_Alloc(S, al, raw)
        S2 == Traits_Construct(S1, al, raw, t, v, ok)
    IN  IF ok
        THEN [S |-> [S2 EXCEPT !.m_ptr[c] = raw,
                               !.deleter[c] = MoveDeleter(kind, DefaultDelState),
                               !.allocator[c] = MoveAllocator(al)],
              res |-> "returned"]
        ELSE [S |-> S2, res |-> "raised"]

\* auto c = rad::make_unique<t>(v).  The allocator answers with new storage
\* or with none; Construct returns or raises.  The cell exists only if
\* make_unique returned.
MakeUnique(c, t, raw, v, ok) ==
    /\ kind = "DefaultDelete"
    /\ NextCell(c)
    /\ FreshAlloc(raw)
    /\ UNCHANGED kind
    /\ LET r == make_unique(cur, c, t, raw, v, ok)
           made == r.res = "returned"
       IN  /\ alive' = [alive EXCEPT ![c] = IF made THEN "live" ELSE @]
           /\ T' = [T EXCEPT ![c] = IF made THEN t ELSE @]
           /\ Commit(r.S, IF made THEN raw ELSE NULL, NULL)
           /\ last' = [Op("makeUnique", c, NoCell, raw, NULL, r.S)
                         EXCEPT !.res = r.res, !.arg = v]

\* c.get_deleter()(nullptr): the deleter's call operator, called directly.
\* (On an address of its own the caller disposes of an object no cell
\* manages.)
InvokeDeleter(c) ==
    /\ Live(c)
    /\ UNCHANGED <<alive, T, kind>>
    /\ LET S == Invoke(cur, c, NULL)
       IN  /\ Commit(S, NULL, NULL)
           /\ last' = Op("invoke", c, NoCell, NULL, NULL, S)

\* c.get(): the caller reads the address and keeps no responsibility for it.
Get(c) ==
    /\ Live(c)
    /\ UNCHANGED <<alive, T, kind>>
    /\ LET r == get(cur, c)
       IN  /\ Commit(r.S, NULL, NULL)
           /\ last' = Op("get", c, NoCell, NULL, r.ret, r.S)

\* if (c) ...: the boolean test.
BoolTest(c) ==
    /\ Live(c)
    /\ UNCHANGED <<alive, T, kind>>
    /\ LET r == operator_bool(cur, c)
       IN  /\ Commit(r.S, NULL, NULL)
           /\ last' = [Op("bool", c, NoCell, NULL, NULL, r.S)
                         EXCEPT !.truth = r.ret]

\* c.operator->(): the address, whatever the caller does with it.
Arrow(c) ==
    /\ Live(c)
    /\ UNCHANGED <<alive, T, kind>>
    /\ LET r == operator_arrow(cur, c)
       IN  /\ Commit(r.S, NULL, NULL)
           /\ last' = Op("arrow", c, NoCell, NULL, r.ret, r.S)

Next ==
    \/ \E c \in Cells, t \in Types : ConstructDefault(c, t)
    \/ \E c \in Cells, t \in Types, p \in Ptr, d \in DelStates :
          Construct(c, t, p, d)
    \/ \E c \in Cells, o \in Cells : MoveConstruct(c, o)
    \/ \E c \in Cells, o \in Cells : ConvertingMoveConstruct(c, o)
    \/ \E c \in Cells : Destroy(c)
    \/ \E c \in Cells : AssignNull(c)
    \/ \E c \in Cells, o \in Cells : MoveAssign(c, o)
    \/ \E c \in Cells, o \in Cells : ConvertingMoveAssign(c, o)
    \/ \E c \in Cells : Release(c)
    \/ \E c \in Cells, p \in Ptr : Reset(c, p)
    \/ \E c \in Cells, o \in Cells : SwapMember(c, o)
    \/ \E a \in Cells, b \in Cells : SwapFree(a, b)
    \/ \E c \in Cells, t \in Types, raw \in Ptr, v \in Args, ok \in BOOLEAN :
          MakeUnique(c, t, raw, v, ok)
    \/ \E c \in Cells : InvokeDeleter(c)
    \/ \E c \in Cells : Get(c)
    \/ \E c \in Cells : BoolTest(c)
    \/ \E c \in Cells : Arrow(c)

Spec == Init /\ [][Next]_vars

TypeOK ==
    /\ alive \in [Cells -> {"none", "live", "dead"}]
    /\ T \in [Cells -> Types]
    /\ kind \in Kinds
    /\ m_ptr \in [Cells -> Ptr]
    /\ deleter \in [Cells -> DelStatesOf(kind)]
    /\ allocator \in [Cells -> AllocIds]
    /\ \A a \in Addr :
          /\ heap[a].units \in {0, 1} /\ heap[a].parts \in SUBSET Types
          /\ heap[a].val \in Args \cup {NoValue} /\ heap[a].made \in BOOLEAN
    /\ last.res \in {"returned", "raised"} /\ last.arg \in Args \cup {NoValue}
    /\ last.truth \in BOOLEAN
    /\ last.line \in {0, 74, 81, 99, 100, 101, 111, 125, 126, 132, 133}
    /\ last.c \in Cells \cup {NoCell} /\ last.o \in Cells \cup {NoCell}
    /\ last.p \in Ptr /\ last.ret \in Ptr /\ Len(last.inv) <= 1
    /\ destroyed \in [Addr -> 0..MaxCount]
    /\ bound \in [Addr -> BOOLEAN]
    /\ handedBack \in [Addr -> BOOLEAN]

\* ------------------------------------------------ the transfers, by field
\* The four transfers taken one field read or write at a time.  last.line is
\* the source line the member function in progress (last.op, on last.c and
\* last.o) executes next, 0 between operations; last.ret is the local tmp
\* of release().
Idle == last.line = 0

At(n) == last.line = n

\* The step leaves the function at line n with tmp in the local.
Goto(S, n, tmp) ==
    last' = [last EXCEPT !.line = n, !.ret = tmp,
                         !.inv = @ \o S.inv, !.ev = @ \o S.ev]

\* The step is the function's last.
Return(S) == Goto(S, 0, NULL)

\* operator=(UniquePtr&& o), line 97: if (this != &o); then reset().
MoveAssign_enter(c, o) ==
    /\ Idle
    /\ Live(c) /\ Live(o)
    /\ T[c] = T[o]
    /\ UNCHANGED <<alive, T, kind>>
    /\ Commit(cur, NULL, NULL)
    /\ last' = [Op("moveAssign", c, o, NULL, NULL, cur)
                  EXCEPT !.line = IF c # o THEN 132 ELSE 0]

\* operator=(UniquePtr<U,E>&& o), line 110: o.release() is entered.
ConvertingMoveAssign_enter(c, o) ==
    /\ Idle
    /\ Live(c) /\ Live(o)
    /\ IsConv(T[o], T[c])
    /\ UNCHANGED <<alive, T, kind>>
    /\ Commit(cur, NULL, NULL)
    /\ last' = [Op("convAssign", c, o, NULL, NULL, cur) EXCEPT !.line = 125]

\* UniquePtr(UniquePtr&& o), line 74: the base Deleter(Move(o.get_deleter()))
\* is initialised, then o.release() is entered.  The cell is live when its
\* constructor has returned.
MoveConstruct_enter(c, o) ==
    /\ Idle
    /\ NextCell(c)
    /\ Live(o)
    /\ T' = [T EXCEPT ![c] = T[o]]
    /\ UNCHANGED <<alive, kind>>
    /\ LET S == [cur EXCEPT !.deleter[c] = MoveDeleter(kind, cur.deleter[o]),
                            !.allocator[c] = MoveAllocator(cur.allocator[o])]
       IN  /\ Commit(S, NULL, NULL)
           /\ last' = [Op("moveCtor", c, o, NULL, NULL, S) EXCEPT !.line = 125]

\* UniquePtr(UniquePtr<U,E>&& o), line 81: the base, then o.release().
ConvertingMoveConstruct_enter(c, o) ==
    /\ Idle
    /\ NextCell(c)
    /\ Live(o)
    /\ IsConv(T[o], "Base")
    /\ T' = [T EXCEPT ![c] = "Base"]
    /\ UNCHANGED <<alive, kind>>
    /\ LET S == [cur EXCEPT !.deleter[c] = ConvertDeleter(kind, cur.deleter[o]),
                            !.allocator[c] = ConvertAllocator(cur.allocator[o])]
       IN  /\ Commit(S, NULL, NULL)
           /\ last' = [Op("convCtor", c, o, NULL, NULL, S) EXCEPT !.line = 125]

\* release(), line 125: pointer tmp = m_ptr.
release_read ==
    /\ At(125)
    /\ UNCHANGED <<alive, T, kind>>
    /\ Commit(cur, NULL, NULL)
    /\ Goto(cur, 126, m_ptr[last.o])

\* release(), lines 126-127: m_ptr = nullptr; return tmp, to the member
\* initialiser of a constructor or to reset(tmp) of the converting assignment.
release_clear ==
    /\ At(126)
    /\ UNCHANGED <<alive, T, kind>>
    /\ LET S == [cur EXCEPT !.m_ptr[last.o] = NULL]
       IN  /\ Commit(S, NULL, NULL)
           /\ Goto(S, CASE last.op = "moveCtor" -> 74
                        [] last.op = "convCtor" -> 81
                        [] OTHER -> 132,
                   last.ret)

\* reset(p), line 132: if (m_ptr) static_cast<Deleter&>(*this)(m_ptr).
reset_call ==
    /\ At(132)
    /\ UNCHANGED <<alive, T, kind>>
    /\ LET c == last.c
           S == IF m_ptr[c] # NULL THEN DeleterCall(cur, c, m_ptr[c], "reset")
                ELSE cur
       IN  /\ Commit(S, NULL, NULL)
           /\ Goto(S, 133, last.ret)

\* reset(p), line 133: m_ptr = p; p is tmp in the converting assignment and
\* nullptr in the move-assignment.
reset_store ==
    /\ At(133)
    /\ UNCHANGED <<alive, T, kind>>
    /\ LET S == [cur EXCEPT !.m_ptr[last.c] =
                     IF last.op = "convAssign" THEN last.ret ELSE NULL]
       IN  /\ Commit(S, NULL, NULL)
           /\ Goto(S, IF last.op = "convAssign" THEN 111 ELSE 99, last.ret)

\* operator=(UniquePtr&& o), line 99: m_ptr = o.m_ptr.
MoveAssign_take ==
    /\ At(99)
    /\ UNCHANGED <<alive, T, kind>>
    /\ LET S == [cur EXCEPT !.m_ptr[last.c] = m_ptr[last.o]]
       IN  /\ Commit(S, NULL, NULL)
           /\ Goto(S, 100, last.ret)

\* operator=(UniquePtr&& o), line 100: get_deleter() = Move(o.get_deleter()).
MoveAssign_deleter ==
    /\ At(100)
    /\ UNCHANGED <<alive, T, kind>>
    /\ LET S == [cur EXCEPT
                   !.deleter[last.c] = MoveDeleter(kind, deleter[last.o]),
                   !.allocator[last.c] = MoveAllocator(allocator[last.o])]
       IN  /\ Commit(S, NULL, NULL)
           /\ Goto(S, 101, last.ret)

\* operator=(UniquePtr&& o), line 101: o.m_ptr = nullptr.
MoveAssign_clear ==
    /\ At(101)
    /\ UNCHANGED <<alive, T, kind>>
    /\ LET S == [cur EXCEPT !.m_ptr[last.o] = NULL]
       IN  /\ Commit(S, NULL, NULL)
           /\ Return(S)

\* operator=(UniquePtr<U,E>&& o), line 111: get_deleter() = Move(o.get_deleter()).
ConvertingMoveAssign_deleter ==
    /\ At(111)
    /\ UNCHANGED <<alive, T, kind>>
    /\ LET S == [cur EXCEPT
                   !.deleter[last.c] = ConvertDeleter(kind, deleter[last.o]),
                   !.allocator[last.c] = ConvertAllocator(allocator[last.o])]
       IN  /\ Commit(S, NULL, NULL)
           /\ Return(S)

\* Lines 74 and 81: the member initialiser m_ptr(tmp); the constructor
\* returns and the cell's lifetime begins.
Construct_store ==
    /\ At(74) \/ At(81)
    /\ alive' = [alive EXCEPT ![last.c] = "live"]
    /\ UNCHANGED <<T, kind>>
    /\ LET S == [cur EXCEPT !.m_ptr[last.c] = last.ret]
       IN  /\ Commit(S, NULL, NULL)
           /\ Return(S)

\* Every other operation runs between two transfers: one thread of control.
NextFields ==
    \/ Idle /\ \E c \in Cells, t \in Types : ConstructDefault(c, t)
    \/ Idle /\ \E c \in Cells, t \in Types, p \in Ptr, d \in DelStates :
                  Construct(c, t, p, d)
    \/ Idle /\ \E c \in Cells : Destroy(c)
    \/ Idle /\ \E c \in Cells : AssignNull(c)
    \/ Idle /\ \E c \in Cells : Release(c)
    \/ Idle /\ \E c \in Cells, p \in Ptr : Reset(c, p)
    \/ Idle /\ \E c \in Cells, o \in Cells : SwapMember(c, o)
    \/ Idle /\ \E a \in Cells, b \in Cells : SwapFree(a, b)
    \/ Idle /\ \E c \in Cells, t \in Types, raw \in Ptr, v \in Args,
                  ok \in BOOLEAN : MakeUnique(c, t, raw, v, ok)
    \/ Idle /\ \E c \in Cells : InvokeDeleter(c)
    \/ Idle /\ \E c \in Cells : Get(c)
    \/ Idle /\ \E c \in Cells : BoolTest(c)
    \/ Idle /\ \E c \in Cells : Arrow(c)
    \/ \E c \in Cells, o \in Cells : MoveAssign_enter(c, o)
    \/ \E c \in Cells, o \in Cells : ConvertingMoveAssign_enter(c, o)
    \/ \E c \in Cells, o \in Cells : MoveConstruct_enter(c, o)
    \/ \E c \in Cells, o \in Cells : ConvertingMoveConstruct_enter(c, o)
    \/ release_read
    \/ release_clear
    \/ reset_call
    \/ reset_store
    \/ MoveAssign_take
    \/ MoveAssign_deleter
    \/ MoveAssign_clear
    \/ ConvertingMoveAssign_deleter
    \/ Construct_store

SpecFields == Init /\ [][NextFields]_vars

\* ================================================================ claims
\* What a step did to the cells other than those in X.
Frame(X) ==
    \A x \in Cells \ X :
        /\ m_ptr'[x] = m_ptr[x] /\ deleter'[x] = deleter[x]
        /\ allocator'[x] = allocator[x]

\* The deleter was called on nothing by this step.
NoInvocation == destroyed' = destroyed /\ last'.inv = <<>>

\* The deleter was called once by this step, on q and on nothing else.
InvokedOnceOn(q) ==
    /\ destroyed' = [destroyed EXCEPT ![q] = @ + 1]
    /\ Len(last'.inv) = 1 /\ last'.inv[1].addr = q

AllGone == \A c \in Cells : alive[c] = "dead"

\* C1 (I1, exclusive ownership): under the caller contract, after any
\* sequence of completed operations no two live cells hold the same
\* non-null address.
ExclusiveOwnership ==
    \A a \in Addr : Cardinality(Holders(cur, a)) <= 1

\* A move-assignment between two distinct cells has destroyed the
\* destination's address and left the destination owning the source's.
ExclusiveOwnershipWitness ==
    /\ last.op = "moveAssign" /\ last.c # last.o
    /\ m_ptr[last.c] # NULL /\ last.inv # <<>>
    /\ Live(last.c) /\ Live(last.o)

\* C2 (no double free): the deleter is called on any address at most once;
\* every call comes from reset (directly or through nullptr-, move- or
\* converting assignment) or from the destructor, on the non-null address
\* the acting cell held.
DestroyingOps == {"reset", "assignNull", "moveAssign", "convAssign", "dtor"}

AtMostOnceDestruction ==
    [][ /\ \A a \in Addr : destroyed'[a] <= 1
        /\ \A a \in Addr : destroyed'[a] # destroyed[a] =>
              /\ last'.op \in DestroyingOps
              /\ m_ptr[last'.c] = a
        /\ \A i \in 1..Len(last'.inv) :
              /\ last'.inv[i].addr # NULL
              /\ last'.inv[i].addr = m_ptr[last'.c]
              /\ last'.inv[i].site = (IF last'.op = "dtor" THEN "dtor" ELSE "reset")
              /\ last'.op \in DestroyingOps ]_vars

\* Every cell has been destroyed, the last one while owning an address, and
\* both addresses were destroyed.
AtMostOnceDestructionWitness ==
    /\ AllGone
    /\ last.op = "dtor" /\ last.inv # <<>>
    /\ \A a \in Addr : destroyed[a] = 1

\* C3 (no leak): once every cell is destroyed, every address that was ever
\* bound to a cell and was not last handed back by release() has had the
\* deleter called on it exactly once.
NoLeak ==
    AllGone =>
        \A a \in Addr : bound[a] /\ ~handedBack[a] => destroyed[a] = 1

\* Every cell is destroyed, one address went through the deleter and the
\* other one was handed back to the caller.
NoLeakWitness ==
    /\ AllGone
    /\ \E a \in Addr : bound[a] /\ ~handedBack[a] /\ destroyed[a] = 1
    /\ \E a \in Addr : bound[a] /\ handedBack[a] /\ destroyed[a] = 0

\* C4 (move transfer): after move-constructing b from a, or b = move(a), for
\* distinct cells of one type, a is empty, b holds the address a held, b's
\* deleter state is a's state before the move, and the deleter was not
\* called on the transferred address.
MoveTransfer ==
    [][ (last'.op \in {"moveCtor", "moveAssign"} /\ last'.c # last'.o) =>
          LET b == last'.c
              a == last'.o
          IN  /\ m_ptr'[a] = NULL
              /\ m_ptr'[b] = m_ptr[a]
              /\ (m_ptr'[b] # NULL) = (m_ptr[a] # NULL)
              /\ deleter'[b] = deleter[a]
              /\ m_ptr[a] # NULL => destroyed'[m_ptr[a]] = destroyed[m_ptr[a]]
              /\ \A i \in 1..Len(last'.inv) : last'.inv[i].addr # m_ptr[a] ]_vars

\* b = move(a) has run with a owning an address and carrying a non-default
\* deleter: b owns it now, with that deleter.
MoveTransferWitness ==
    /\ last.op = "moveAssign" /\ last.c # last.o
    /\ m_ptr[last.c] # NULL /\ m_ptr[last.o] = NULL
    /\ deleter[last.c] = OtherDelState

\* C5 (self-move): u = move(u) leaves u's address and deleter state as they
\* were and calls the deleter zero times.
SelfMoveSafety ==
    [][ (last'.op = "moveAssign" /\ last'.c = last'.o) =>
          /\ m_ptr' = m_ptr
          /\ deleter' = deleter
          /\ NoInvocation ]_vars

\* u = move(u) has run on an owning cell.
SelfMoveSafetyWitness ==
    /\ last.op = "moveAssign" /\ last.c = last.o
    /\ m_ptr[last.c] # NULL /\ destroyed[m_ptr[last.c]] = 0

\* C6 (release): release() returns the address held before the call, leaves
\* the cell empty, changes neither a deleter nor another cell, and does not
\* call the deleter; an address in the caller's hands after release() is
\* not destroyed by any later step, as long as it is not bound again.
ReleaseTransfersResponsibility ==
    [][ /\ last'.op = "release" =>
              /\ last'.ret = m_ptr[last'.c]
              /\ m_ptr'[last'.c] = NULL
              /\ deleter' = deleter
              /\ Frame({last'.c})
              /\ NoInvocation
              /\ last'.ret # NULL => handedBack'[last'.ret]
        /\ \A a \in Addr : handedBack[a] => destroyed'[a] = destroyed[a] ]_vars

\* An address was released and every cell, the releasing one included, has
\* been destroyed since: the address was never destroyed.
ReleaseTransfersResponsibilityWitness ==
    /\ AllGone
    /\ \E a \in Addr : bound[a] /\ handedBack[a] /\ destroyed[a] = 0

\* C7 (reset(p)): a cell holding q # null gets the deleter called exactly
\* once, on q; an empty cell gets no call; the cell then holds exactly p,
\* the deleter was not called on p, no deleter state changed.
ResetContract ==
    [][ last'.op = "reset" =>
          LET c == last'.c
              q == m_ptr[c]
              p == last'.p
          IN  /\ q # NULL => InvokedOnceOn(q)
              /\ q = NULL => NoInvocation
              /\ m_ptr'[c] = p
              /\ p # NULL => destroyed'[p] = destroyed[p]
              /\ deleter' = deleter
              /\ Frame({c}) ]_vars

\* reset(p) with a non-null p has run on an owning cell.
ResetContractWitness ==
    /\ last.op = "reset" /\ last.p # NULL
    /\ Len(last.inv) = 1 /\ last.inv[1].addr # last.p
    /\ m_ptr[last.c] = last.p

\* C8 (idempotent reset, empty destruction): reset() on an empty cell and
\* the destructor of an empty cell call the deleter zero times and change
\* nothing; reset() twice equals reset() once, in final state and in calls.
IdempotentReset ==
    [][ /\ (last'.op = "reset" /\ last'.p = NULL /\ m_ptr[last'.c] = NULL) =>
              /\ m_ptr' = m_ptr /\ deleter' = deleter /\ NoInvocation
        /\ (last'.op = "dtor" /\ m_ptr[last'.c] = NULL) =>
              /\ NoInvocation /\ Frame({last'.c})
        /\ (last'.op = "reset" /\ last'.p = NULL) =>
              /\ reset(cur', last'.c, NULL) = cur'
              /\ reset(reset(cur, last'.c, NULL), last'.c, NULL)
                    = reset(cur, last'.c, NULL) ]_vars

\* reset() has run on a cell that an earlier reset() had already emptied.
IdempotentResetWitness ==
    /\ last.op = "reset" /\ last.p = NULL /\ last.inv = <<>>
    /\ Live(last.c) /\ m_ptr[last.c] = NULL
    /\ \E a \in Addr : destroyed[a] = 1 /\ ~handedBack[a]

\* C9 (swap): x.swap(y) and swap(x, y) leave x with y's address and deleter
\* state and y with x's, call the deleter zero times and change no other
\* cell; x.swap(x) leaves x unchanged; swapping twice restores both.
SwapExchanges ==
    [][ /\ last'.op \in {"swap", "swapFree"} =>
              LET x == last'.c
                  y == last'.o
              IN  /\ m_ptr'[x] = m_ptr[y] /\ m_ptr'[y] = m_ptr[x]
                  /\ deleter'[x] = deleter[y] /\ deleter'[y] = deleter[x]
                  /\ NoInvocation
                  /\ Frame({x, y})
                  /\ x = y => (m_ptr' = m_ptr /\ deleter' = deleter)
                  /\ swap(cur', x, y) = cur ]_vars

\* x.swap(y) has run on two owning cells with different deleter states.
SwapExchangesWitness ==
    /\ last.op = "swap" /\ last.c # last.o
    /\ m_ptr[last.c] # NULL /\ m_ptr[last.o] # NULL
    /\ deleter[last.c] # deleter[last.o]

\* C10 (converting move-construction): constructing a UniquePtr<Base, P>
\* from move(d), d a UniquePtr<Derived, PD>, leaves d empty, gives the new
\* cell d's address and d's deleter state (a D2 with state 42 is seen with
\* state 42), and calls the deleter zero times; a later reset() or
\* destruction of an owning Base cell calls the deleter exactly once, on the
\* address it holds.
ConvertingConstructTransfers ==
    [][ /\ last'.op = "convCtor" =>
              LET b == last'.c
                  d == last'.o
              IN  /\ T[d] = "Derived" /\ T'[b] = "Base"
                  /\ m_ptr'[d] = NULL
                  /\ m_ptr'[b] = m_ptr[d]
                  /\ deleter'[b] = deleter[d]
                  /\ NoInvocation
        /\ ( /\ last'.op \in {"reset", "dtor"}
             /\ T[last'.c] = "Base"
             /\ m_ptr[last'.c] # NULL ) => InvokedOnceOn(m_ptr[last'.c]) ]_vars

\* A UniquePtr<Base, D2> has been built from an owning UniquePtr<Derived, D2>
\* whose deleter had state 42.
ConvertingConstructTransfersWitness ==
    /\ last.op = "convCtor"
    /\ m_ptr[last.c] # NULL /\ m_ptr[last.o] = NULL
    /\ deleter[last.c] = OtherDelState

\* C11 (converting move-assignment): b = move(d), d a UniquePtr<Derived>, b a
\* UniquePtr<Base>: the address b held is destroyed exactly once, by a call
\* that carries b's deleter state from before the assignment (so the call
\* comes before d's deleter is moved into b); an empty b gets no call;
\* afterwards b holds d's address with d's deleter state, d is empty, and
\* the deleter was not called on the transferred address.
ConvertingAssignContract ==
    [][ last'.op = "convAssign" =>
          LET b == last'.c
              d == last'.o
              q == m_ptr[b]
          IN  /\ T[d] = "Derived" /\ T[b] = "Base"
              /\ q # NULL => InvokedOnceOn(q) /\ last'.inv[1].del = deleter[b]
              /\ q = NULL => NoInvocation
              /\ m_ptr'[b] = m_ptr[d]
              /\ deleter'[b] = deleter[d]
              /\ m_ptr'[d] = NULL
              /\ m_ptr[d] # NULL => destroyed'[m_ptr[d]] = destroyed[m_ptr[d]]
              /\ \A i \in 1..Len(last'.inv) : last'.inv[i].addr # m_ptr'[b]
              /\ Frame({b, d}) ]_vars

\* b = move(d) has run with both cells owning and b carrying another deleter
\* state than d: b's old address went through b's old deleter.
ConvertingAssignContractWitness ==
    /\ last.op = "convAssign"
    /\ Len(last.inv) = 1 /\ last.inv[1].del # deleter[last.c]
    /\ m_ptr[last.c] # NULL /\ m_ptr[last.o] = NULL
    /\ destroyed[last.inv[1].addr] = 1 /\ destroyed[m_ptr[last.c]] = 0

\* C12 (move-assignment cleans the destination): for distinct cells,
\* b = move(a) with b owning q calls the deleter exactly once, on q, with b's
\* deleter state from before the assignment and not a's, and the call is
\* made while b does not hold a's address yet; an empty b gets no call.
MoveAssignCleanup ==
    [][ (last'.op = "moveAssign" /\ last'.c # last'.o) =>
          LET b == last'.c
              a == last'.o
              q == m_ptr[b]
          IN  /\ q # NULL =>
                    /\ InvokedOnceOn(q)
                    /\ last'.inv[1].del = deleter[b]
                    /\ last'.inv[1].addr # m_ptr'[b]
              /\ q = NULL => NoInvocation ]_vars

\* b = move(a) has run with b owning, a owning and a carrying another
\* deleter state than b.
MoveAssignCleanupWitness ==
    /\ last.op = "moveAssign" /\ last.c # last.o
    /\ Len(last.inv) = 1 /\ last.inv[1].del # deleter[last.c]
    /\ m_ptr[last.c] # NULL
    /\ destroyed[last.inv[1].addr] = 1

\* C19 (nullptr-assignment is reset()): p = nullptr leaves every cell and
\* every deleter as p.reset() leaves them and makes the same deleter calls:
\* one on the held address of an owning p, none for an empty p; p is empty
\* afterwards and its deleter state is unchanged.
AssignNullIsReset ==
    [][ last'.op = "assignNull" =>
          LET c == last'.c
              q == m_ptr[c]
              R == reset(cur, c, NULL)
          IN  /\ m_ptr' = R.m_ptr /\ deleter' = R.deleter
              /\ destroyed' = R.destroyed
              /\ Len(last'.inv) = Len(R.inv)
              /\ \A i \in 1..Len(R.inv) :
                    /\ last'.inv[i].addr = R.inv[i].addr
                    /\ last'.inv[i].del = R.inv[i].del
              /\ m_ptr'[c] = NULL /\ deleter' = deleter
              /\ q # NULL => InvokedOnceOn(q)
              /\ q = NULL => NoInvocation ]_vars

\* p = nullptr has run on an owning cell with a non-default deleter.
AssignNullIsResetWitness ==
    /\ last.op = "assignNull"
    /\ Len(last.inv) = 1 /\ last.inv[1].del = OtherDelState
    /\ m_ptr[last.c] = NULL /\ deleter[last.c] = OtherDelState

\* C13 (make_unique, success path): when the allocator answers with storage
\* and the constructor returns, make_unique<T>(v) makes exactly one Alloc of
\* one unit and exactly one Construct, in that storage and with v, calls no
\* deleter, and returns a live cell owning that address, whose object is a
\* whole T of value v: one more object is alive and one more unit is out.
\* reset(), p = nullptr or the destructor of a cell owning such an address
\* ends that object and frees that unit: nothing is left at the address.
MakeUniqueSuccess ==
    [][ /\ ( /\ last'.op = "makeUnique"
             /\ last'.p # NULL /\ last'.res = "returned" ) =>
              LET c == last'.c
                  a == last'.p
                  v == last'.arg
              IN  /\ Len(last'.ev) = 2
                  /\ last'.ev[1].ev = "Alloc" /\ last'.ev[1].n = 1
                  /\ last'.ev[1].addr = a
                  /\ last'.ev[2].ev = "Construct" /\ last'.ev[2].addr = a
                  /\ last'.ev[2].arg = v
                  /\ last'.ev[2].alloc = last'.ev[1].alloc
                  /\ alive[c] = "none" /\ alive'[c] = "live" /\ m_ptr'[c] = a
                  /\ heap[a] = NoObject
                  /\ heap'[a].units = 1 /\ heap'[a].parts = Parts(T'[c])
                  /\ heap'[a].val = v
                  /\ LiveCount(heap') = LiveCount(heap) + 1
                  /\ Outstanding(heap') = Outstanding(heap) + 1
                  /\ NoInvocation
        /\ ( /\ last'.op \in {"reset", "assignNull", "dtor"} /\ last'.p = NULL
             /\ m_ptr[last'.c] # NULL
             /\ heap[m_ptr[last'.c]].made ) =>
              LET a == m_ptr[last'.c]
              IN  /\ heap[a].units = 1 /\ heap[a].parts # {}
                  /\ heap'[a] = NoObject
                  /\ LiveCount(heap') = LiveCount(heap) - 1
                  /\ Outstanding(heap') = Outstanding(heap) - 1 ]_vars

\* make_unique<T>(55) has returned a cell whose object is the only one alive.
MakeUniqueSuccessWitness ==
    /\ last.op = "makeUnique" /\ last.res = "returned" /\ last.p # NULL
    /\ last.arg = 55 /\ heap[last.p].val = 55
    /\ m_ptr[last.c] = last.p /\ Live(last.c)
    /\ LiveCount(heap) = 1

\* C14 (make_unique, construction failure): when T's constructor raises
\* after the allocator gave storage, that storage has been freed when the
\* failure leaves make_unique, no cell is produced, and as many units are
\* out after the call as before it.
ConstructionFailureFreesStorage ==
    [][ ( /\ last'.op = "makeUnique"
          /\ last'.p # NULL /\ last'.res = "raised" ) =>
          /\ alive' = alive /\ m_ptr' = m_ptr
          /\ heap'[last'.p].units = 0
          /\ Outstanding(heap') = Outstanding(heap)
          /\ \E i \in 1..Len(last'.ev) :
                last'.ev[i].ev = "Free" /\ last'.ev[i].addr = last'.p ]_vars

\* C15 (make_unique, allocation failure): when the allocator answers with no
\* storage, make_unique reports a failure, does not call Construct, and does
\* not return a cell.
AllocationFailureReported ==
    [][ (last'.op = "makeUnique" /\ last'.p = NULL) =>
          /\ last'.res = "raised"
          /\ \A i \in 1..Len(last'.ev) : last'.ev[i].ev # "Construct"
          /\ alive' = alive ]_vars

\* C16 (DefaultDelete's call operator): a call on a non-null address q makes
\* exactly one Destroy of the object at q and then exactly one Free of one
\* unit at q, both with the allocator the deleter holds, and nothing else; a
\* call on null makes no Destroy and no Free and changes nothing.
DefaultDeleteInvocation ==
    [][ kind = "DefaultDelete" =>
          /\ \A i \in 1..Len(last'.inv) :
                LET q  == last'.inv[i].addr
                    al == last'.inv[i].alloc
                IN  /\ q # NULL
                    /\ al = allocator[last'.c]
                    /\ last'.ev = << Ev("Destroy", q, 1, al, NoValue, heap[q].parts),
                                     Ev("Free", q, 1, al, NoValue, {}) >>
                    /\ heap[q].units = 1 /\ heap[q].parts # {}
                    /\ heap'[q] = NoObject
          /\ last'.op = "invoke" =>
                /\ last'.p = NULL
                /\ last'.ev = <<>> /\ last'.inv = <<>>
                /\ heap' = heap /\ destroyed' = destroyed
                /\ m_ptr' = m_ptr /\ deleter' = deleter ]_vars

\* The destructor of a cell made by make_unique has called its DefaultDelete:
\* Destroy, then Free, with the allocator of that make_unique call.
DefaultDeleteInvocationWitness ==
    /\ kind = "DefaultDelete"
    /\ last.op = "dtor" /\ Len(last.inv) = 1 /\ Len(last.ev) = 2
    /\ last.ev[1].ev = "Destroy" /\ last.ev[2].ev = "Free"
    /\ last.ev[1].alloc = last.inv[1].addr
    /\ heap[last.inv[1].addr] = NoObject

\* C17 (the allocator stays bound to the address): an address that
\* make_unique produced with its allocator A and that has gone from cell to
\* cell since (move and converting move construction and assignment, swap)
\* is destroyed by a deleter that holds a copy of A, not an allocator
\* default-constructed on the way.
AllocatorBindingSurvives ==
    [][ \A i \in 1..Len(last'.inv) :
          LET a == last'.inv[i].addr
          IN  IF a = NULL THEN TRUE
              ELSE heap[a].made => last'.inv[i].alloc = a ]_vars

CleanupBeforeOverwrite ==
    [][ last'.op \in {"reset", "assignNull", "moveAssign", "convAssign"} =>
          LET c == last'.c
              q == m_ptr[c]
              new == CASE last'.op = "reset" -> last'.p
                       [] last'.op = "assignNull" -> NULL
                       [] OTHER -> m_ptr[last'.o]
          IN  (q # NULL /\ (last'.op = "moveAssign" => c # last'.o)) =>
                /\ Len(last'.inv) = 1
                /\ last'.inv[1].addr = q
                /\ last'.inv[1].held = q
                /\ last'.inv[1].site = "reset"
                /\ m_ptr'[c] = new /\ new # q ]_vars

\* b = move(d), a converting assignment, has run with both cells owning:
\* the deleter ran on b's old address while b still held it, and b holds
\* d's address now.
CleanupBeforeOverwriteWitness ==
    /\ last.op = "convAssign"
    /\ Len(last.inv) = 1 /\ last.inv[1].held = last.inv[1].addr
    /\ m_ptr[last.c] # NULL /\ m_ptr[last.c] # last.inv[1].held

\* A cell that exists before and after the step, holds no address before it
\* and holds one after it.
BecomesOwning(x) ==
    /\ alive[x] = "live" /\ alive'[x] = "live"
    /\ m_ptr[x] = NULL /\ m_ptr'[x] # NULL

\* C22 as stated (EMPTY -> OWNING only by reset): a cell that already exists
\* and holds no address comes to hold one only by reset(p) on it with a
\* non-null p, and that reset does make it hold p.
OnlyResetMakesOwning ==
    [][ /\ \A x \in Cells : BecomesOwning(x) =>
              last'.op = "reset" /\ last'.c = x /\ last'.p # NULL
        /\ (last'.op = "reset" /\ last'.p # NULL /\ m_ptr[last'.c] = NULL) =>
              BecomesOwning(last'.c) /\ m_ptr'[last'.c] = last'.p ]_vars

\* C22 amended (EMPTY -> OWNING transitions of an existing cell): a cell
\* that already exists and holds no address comes to hold one only by
\* reset(p) on it with a non-null p, by move-assignment or converting
\* move-assignment to it from a source that holds an address, or by a swap
\* between it and a cell that holds an address; and reset(p) with a
\* non-null p on such a cell does make it hold p.
EmptyToOwningTransitions ==
    [][ /\ \A x \in Cells : BecomesOwning(x) =>
              \/ last'.op = "reset" /\ last'.c = x /\ last'.p # NULL
              \/ /\ last'.op \in {"moveAssign", "convAssign"}
                 /\ last'.c = x /\ last'.o # x
                 /\ m_ptr[last'.o] # NULL
              \/ /\ last'.op \in {"swap", "swapFree"}
                 /\ x \in {last'.c, last'.o}
                 /\ \E y \in {last'.c, last'.o} \ {x} : m_ptr[y] # NULL
        /\ (last'.op = "reset" /\ last'.p # NULL /\ m_ptr[last'.c] = NULL) =>
              BecomesOwning(last'.c) /\ m_ptr'[last'.c] = last'.p ]_vars

\* reset(p) with a non-null p has run on an existing cell that held no
\* address (no deleter call), and the cell holds p.
EmptyToOwningTransitionsWitness ==
    /\ last.op = "reset" /\ last.p # NULL
    /\ last.inv = <<>>
    /\ Live(last.c) /\ m_ptr[last.c] = last.p

\* The address the operations' contracts bind to cell x by the step: the
\* one given at construction, by reset(p), by a move or by a swap; none
\* after release, reset(), p = nullptr or a move out; otherwise the one x
\* had.
BoundAfter(x) ==
    LET op == last'.op
        c  == last'.c
        o  == last'.o
    IN  CASE op \in {"ctor", "reset", "makeUnique"} /\ x = c -> last'.p
          [] op \in {"ctor0", "assignNull", "release"} /\ x = c -> NULL
          [] op \in {"moveCtor", "convCtor", "convAssign"} /\ x = c -> m_ptr[o]
          [] op \in {"moveCtor", "convCtor", "convAssign"} /\ x = o -> NULL
          [] op = "moveAssign" /\ c # o /\ x = c -> m_ptr[o]
          [] op = "moveAssign" /\ c # o /\ x = o -> NULL
          [] op \in {"swap", "swapFree"} /\ x = c -> m_ptr[o]
          [] op \in {"swap", "swapFree"} /\ x = o -> m_ptr[c]
          [] OTHER -> m_ptr[x]

\* C24 (observers are pure): get(), the boolean test and operator-> leave
\* every cell's address, deleter state and allocator and the storage as
\* they were and call the deleter zero times; get() and operator-> return
\* the cell's address, the boolean test is true exactly when that address
\* is non-null; and after every operation each live cell holds the address
\* most recently bound to it by construction, reset(p), move or swap and
\* not since released, reset or moved out, which is what get() returns.
ObserversArePure ==
    [][ /\ last'.op \in {"get", "bool", "arrow"} =>
              /\ m_ptr' = m_ptr /\ deleter' = deleter
              /\ allocator' = allocator /\ heap' = heap
              /\ alive' = alive
              /\ NoInvocation /\ last'.ev = <<>>
              /\ last'.op \in {"get", "arrow"} => last'.ret = m_ptr[last'.c]
              /\ last'.op = "bool" => (last'.truth <=> m_ptr[last'.c] # NULL)
        /\ \A x \in Cells : alive'[x] = "live" => m_ptr'[x] = BoundAfter(x)
      ]_vars

\* get() has run on a cell that holds an address and has returned it; the
\* cell still holds it.
ObserversArePureWitness ==
    /\ last.op = "get" /\ last.ret # NULL
    /\ Live(last.c) /\ m_ptr[last.c] = last.ret

\* C23 (exclusive at every field step): with the move constructor, the
\* converting move constructor, the move-assignment and the converting
\* move-assignment taken one field read or write at a time, in no state,
\* between operations or inside one, do two live cells hold the same
\* non-null address.
FieldLevelExclusive ==
    \A x \in Cells, y \in Cells :
        (x # y /\ Live(x) /\ Live(y) /\ m_ptr[x] # NULL) => m_ptr[x] # m_ptr[y]
====
